---- MODULE Spec2Model ----
(***************************************************************************)
(* RBF interpolation (rbf/interpolate.py): the global interpolant          *)
(* RBFInterpolant, the k-nearest-neighbour interpolant                     *)
(* NearestRBFInterpolant and the convex hull test _in_hull.                *)
(*                                                                         *)
(* Floating point numbers are modelled by exact rationals <<num, den>>     *)
(* in lowest terms with den > 0; not-a-number is the pair <<0, 0>>.        *)
(* An (n, D) array is a record [dim |-> D, pts |-> <<point, ...>>] so that *)
(* an empty array still has its second dimension.                          *)
(***************************************************************************)
EXTENDS Integers, Sequences, FiniteSets, TLC

\* Bounds of the explored inputs.
MaxP == 3        \* most target points in one evaluation
MaxChunk == 2    \* largest integer chunk_size
MaxK == 3        \* largest neighbourhood size k

-----------------------------------------------------------------------------
(* Exact rational arithmetic.                                              *)

Abs(n) == IF n < 0 THEN -n ELSE n

RECURSIVE GCD(_, _)
GCD(a, b) == IF b = 0 THEN a ELSE GCD(b, a % b)

\* The rational n/d (d # 0) in lowest terms with a positive denominator.
Rat(n, d) ==
  LET g == GCD(Abs(n), Abs(d))
      s == IF d < 0 THEN -1 ELSE 1
  IN  <<(s * n) \div g, (s * d) \div g>>

Zero == <<0, 1>>
NaN == <<0, 0>>
FromInt(n) == <<n, 1>>
IsNaN(v) == v[2] = 0

\* Sums and products reduce by common factors before multiplying, so that
\* intermediate values stay as small as the result allows.
RAdd(a, b) ==
  IF a[2] = 1 /\ b[2] = 1 THEN <<a[1] + b[1], 1>>
  ELSE LET g == GCD(a[2], b[2])
       IN  Rat(a[1] * (b[2] \div g) + b[1] * (a[2] \div g), (a[2] \div g) * b[2])
RNeg(a) == <<-a[1], a[2]>>
RSub(a, b) == RAdd(a, RNeg(b))
RMul(a, b) ==
  IF a[1] = 0 \/ b[1] = 0 THEN Zero
  ELSE IF a[2] = 1 /\ b[2] = 1 THEN <<a[1] * b[1], 1>>
  ELSE LET g == GCD(Abs(a[1]), b[2])
           h == GCD(Abs(b[1]), a[2])
       IN  Rat((a[1] \div g) * (b[1] \div h), (a[2] \div h) * (b[2] \div g))
RDiv(a, b) == RMul(a, Rat(b[2], b[1]))

\* A sequence with every element evaluated.
Force(s) == SubSeq(s, 1, Len(s))

RECURSIVE RSum(_, _)
RSum(s, i) == IF i > Len(s) THEN Zero ELSE RAdd(s[i], RSum(s, i + 1))

\* sum_j a[j] * b[j] over two equally long vectors of rationals
Dot(a, b) == RSum(Force([j \in 1..Len(a) |-> RMul(a[j], b[j])]), 1)

-----------------------------------------------------------------------------
(* Dense linear solve, Gauss-Jordan elimination with row pivoting over the *)
(* rationals.  A is a sequence of n rows of n+1 entries (the last entry of *)
(* a row is its right-hand side).                                          *)

PivotRows(A, c) == {p \in c..Len(A) : A[p][c] # Zero}

RECURSIVE Eliminate(_, _)
\* Columns c.. of A are still to be reduced; once all are, the last column
\* holds the solution.
Eliminate(A, c) ==
  IF c > Len(A)
  THEN [singular |-> FALSE, s |-> Force([i \in 1..Len(A) |-> A[i][Len(A) + 1]])]
  ELSE IF PivotRows(A, c) = {} THEN [singular |-> TRUE, s |-> <<>>]
  ELSE
    LET p == CHOOSE q \in PivotRows(A, c) : \A r \in PivotRows(A, c) : q <= r
        w == Len(A[1])
        prow == Force([j \in 1..w |-> RDiv(A[p][j], A[p][c])])
        src(i) == IF i = c THEN A[p] ELSE IF i = p THEN A[c] ELSE A[i]
        B == Force([i \in 1..Len(A) |->
               IF i = c THEN prow
               ELSE LET row == src(i)
                    IN  IF row[c] = Zero THEN row
                        ELSE Force([j \in 1..w |->
                               RSub(row[j], RMul(row[c], prow[j]))])])
    IN  Eliminate(B, c + 1)

\* Solution of the square system lhs * s = rhs:
\* [singular |-> TRUE] when lhs has no inverse.
LinSolve(lhs, rhs) ==
  Eliminate(Force([i \in 1..Len(lhs) |-> Append(lhs[i], rhs[i])]), 1)

-----------------------------------------------------------------------------
(* Collaborators of the interpolants: kernels (rbf.basis), monomials       *)
(* (rbf.poly), shape assertion and k-d tree (rbf.utils), block solver      *)
(* (rbf.linalg).                                                           *)

None == [kind |-> "none"]

Arr(dim, pts) == [dim |-> dim, pts |-> pts]
Rows(a) == Len(a.pts)

RECURSIVE SumSq(_, _, _)
SumSq(p, q, i) ==
  IF i > Len(p) THEN 0 ELSE (p[i] - q[i]) * (p[i] - q[i]) + SumSq(p, q, i + 1)

\* squared Euclidean distance and Euclidean distance of two points; the
\* explored points have whole distances
Dist2(p, q) == SumSq(p, q, 1)
Dist(p, q) == CHOOSE r \in 0..Dist2(p, q) : r * r = Dist2(p, q)

\* the dimension differentiated in, 0 for the function value
DiffDim(diff) ==
  IF \E i \in 1..Len(diff) : diff[i] # 0
  THEN CHOOSE i \in 1..Len(diff) : diff[i] # 0 ELSE 0

SparseKernels == {"spwen31"}
DenseKernels == {"phs3"}

\* phs3: (eps*r)^3, and its first derivative 3*eps^3*r*(p_i - q_i).
\* spwen31: (1 - r/eps)^4 * (4*r/eps + 1) for r < eps and 0 from there on, and
\* its first derivative -20*(1 - r/eps)^3 * (p_i - q_i) / eps^2.
RBFValue(phi, p, q, eps, diff) ==
  LET r == Dist(p, q)
      i == DiffDim(diff)
      u == Rat(eps - r, eps)
      u3 == RMul(u, RMul(u, u))
  IN  IF phi = "phs3"
      THEN IF i = 0 THEN FromInt(eps * eps * eps * r * r * r)
           ELSE FromInt(3 * eps * eps * eps * r * (p[i] - q[i]))
      ELSE IF r >= eps THEN Zero
      ELSE IF i = 0 THEN RMul(RMul(u3, u), Rat(4 * r + eps, eps))
           ELSE RMul(u3, Rat(-20 * (p[i] - q[i]), eps * eps))

\* phi(x, c, eps=eps, diff=diff): one row per point of x, one column per centre
RBFMatrix(phi, x, c, eps, diff) ==
  Force([i \in 1..Len(x) |->
    Force([j \in 1..Len(c) |-> RBFValue(phi, x[i], c[j], eps, diff)])])

RECURSIVE Binomial(_, _)
Binomial(n, r) ==
  IF r = 0 THEN 1 ELSE (Binomial(n - 1, r - 1) * n) \div r

\* number of monomials of total degree <= order in dim variables
MonomialCount(order, dim) == IF order < 0 THEN 0 ELSE Binomial(order + dim, dim)

RECURSIVE ExponentsOfDegree(_, _), ExponentsFrom(_, _, _)
\* the exponent tuples of `dim` variables with total degree exactly t
ExponentsOfDegree(t, dim) ==
  IF dim = 1 THEN <<<<t>>>> ELSE ExponentsFrom(t, dim, 0)
\* those whose first exponent is at most t - j
ExponentsFrom(t, dim, j) ==
  IF j > t THEN <<>>
  ELSE LET rest == ExponentsOfDegree(j, dim - 1)
       IN  Force([m \in 1..Len(rest) |-> <<t - j>> \o rest[m]])
           \o ExponentsFrom(t, dim, j + 1)

RECURSIVE powers(_, _)
\* powers(order, dim): the exponent tuples of the monomials spanning the
\* polynomials of that order, by increasing degree
powers(order, dim) ==
  IF order < 0 THEN <<>>
  ELSE powers(order - 1, dim) \o ExponentsOfDegree(order, dim)

RECURSIVE IntPow(_, _)
IntPow(v, p) == IF p = 0 THEN 1 ELSE v * IntPow(v, p - 1)

\* d^n/dv^n of v^p for n in {0, 1}
MonoTerm(v, p, n) ==
  IF n = 0 THEN IntPow(v, p) ELSE IF p = 0 THEN 0 ELSE p * IntPow(v, p - 1)

RECURSIVE MonoValue(_, _, _, _)
MonoValue(pt, pw, diff, i) ==
  IF i > Len(pt) THEN 1
  ELSE MonoTerm(pt[i], pw[i], diff[i]) * MonoValue(pt, pw, diff, i + 1)

\* mvmonos(x, pwr, diff): one row per point, one column per monomial
mvmonos(x, pwr, diff) ==
  Force([i \in 1..Len(x) |->
    Force([m \in 1..Len(pwr) |-> FromInt(MonoValue(x[i], pwr[m], diff, 1))])])

NoDiff(dim) == [i \in 1..dim |-> 0]

\* assert_shape(arr, (n,), label) for a one dimensional array
assert_shape1(arr, n) == Len(arr) = n
\* assert_shape(arr, (None, dim), label) for a two dimensional array
assert_shape2(arr, dim) == arr.dim = dim

\* the solution r of a block system split into its first n entries and the rest
Partition(r, n) ==
  IF r.singular THEN [singular |-> TRUE, a |-> <<>>, b |-> <<>>]
  ELSE [singular |-> FALSE, a |-> SubSeq(r.s, 1, n),
        b |-> SubSeq(r.s, n + 1, Len(r.s))]

\* PartitionedSolver(K, P).solve(d, z): the solution (a, b) of
\* [[K, P], [P^T, 0]] [a; b] = [d; z]
PartitionedSolve(K, P, d, z) ==
  LET n == Len(K)
      m == Len(z)
      lhs == Force([i \in 1..(n + m) |->
               IF i <= n THEN K[i] \o P[i]
               ELSE Force([j \in 1..(n + m) |->
                      IF j <= n THEN P[j][i - n] ELSE Zero])])
  IN  Partition(LinSolve(lhs, d \o z), n)

-----------------------------------------------------------------------------
(* _in_hull                                                                *)

Cross(a, b, c) == (b[1] - a[1]) * (c[2] - a[2]) - (b[2] - a[2]) * (c[1] - a[1])

\* scipy.spatial.Delaunay needs points that span the plane
Degenerate(pts) ==
  \A i, j, k \in 1..Len(pts) : Cross(pts[i], pts[j], pts[k]) = 0

InTriangle(p, a, b, c) ==
  LET s == {Cross(a, b, p), Cross(b, c, p), Cross(c, a, p)}
  IN  ~((\E v \in s : v < 0) /\ (\E v \in s : v > 0))

\* Delaunay(hull).find_simplex(p) >= 0: p is in a triangle of the
\* triangulation, that is, in the closed convex hull
InSomeSimplex(p, pts) ==
  \E i, j, k \in 1..Len(pts) :
    /\ Cross(pts[i], pts[j], pts[k]) # 0
    /\ InTriangle(p, pts[i], pts[j], pts[k])

SeqMin(pts) == CHOOSE v \in {pts[i][1] : i \in 1..Len(pts)} :
                 \A i \in 1..Len(pts) : v <= pts[i][1]
SeqMax(pts) == CHOOSE v \in {pts[i][1] : i \in 1..Len(pts)} :
                 \A i \in 1..Len(pts) : v >= pts[i][1]

\* a faulty comparison that takes the shortcut also for D + 1 points
TooFewForSimplex_one_more(hull, dim) == Rows(hull) <= dim + 1
\* a faulty comparison that takes the shortcut for one point less
TooFewForSimplex_strict(hull, dim) == Rows(hull) < dim
\* hull.shape[0] <= dim: not enough points to form a simplex
TooFewForSimplex(hull, dim) == Rows(hull) <= dim

\* _in_hull(p, hull): [error, mask], mask[i] whether p[i] is in the hull
in_hull(p, hull) ==
  LET dim == p.dim
  IN  IF TooFewForSimplex(hull, dim)
      THEN [error |-> FALSE, mask |-> [i \in 1..Rows(p) |-> FALSE]]
      ELSE IF dim >= 2
      THEN IF Degenerate(hull.pts)
           THEN [error |-> TRUE, mask |-> <<>>]
           ELSE [error |-> FALSE,
                 mask |-> [i \in 1..Rows(p) |-> InSomeSimplex(p.pts[i], hull.pts)]]
      ELSE [error |-> FALSE,
            mask |-> [i \in 1..Rows(p) |->
                       /\ p.pts[i][1] >= SeqMin(hull.pts)
                       /\ p.pts[i][1] <= SeqMax(hull.pts)]]

-----------------------------------------------------------------------------
(* RBFInterpolant                                                          *)

\* sigma is [scalar |-> TRUE, v |-> <<s>>] or [scalar |-> FALSE, v |-> array]
SigmaFull(sigma, n) ==
  IF sigma.scalar THEN Force([i \in 1..n |-> sigma.v[1]]) ELSE sigma.v

\* a faulty smoothing term: sigma instead of its square
AddDiag_unsquared(K, sig) ==
  Force([i \in 1..Len(K) |->
    Force([j \in 1..Len(K[i]) |->
      IF i = j THEN RAdd(K[i][j], FromInt(sig[i])) ELSE K[i][j]])])
\* K + diags(sigma**2)
AddDiag(K, sig) ==
  Force([i \in 1..Len(K) |->
    Force([j \in 1..Len(K[i]) |->
      IF i = j THEN RAdd(K[i][j], FromInt(sig[i] * sig[i])) ELSE K[i][j]])])

Failure(error, trace) == [outcome |-> error, self |-> None, trace |-> trace]

\* a faulty validation that does not look at an array-valued sigma
InputShapesFit_d_only(y, d, sigma) == assert_shape1(d, Rows(y))
\* the assertions both constructors open with: d, and sigma when it is an
\* array, have one entry per observation
InputShapesFit(y, d, sigma) ==
  /\ assert_shape1(d, Rows(y))
  /\ sigma.scalar \/ assert_shape1(sigma.v, Rows(y))

\* a faulty comparison that also rejects as many monomials as observations
OrderTooHigh_inclusive(pwr, y) == Len(pwr) >= Rows(y)
\* pwr.shape[0] > y.shape[0]: more monomials than observations
OrderTooHigh(pwr, y) == Len(pwr) > Rows(y)

\* RBFInterpolant.__init__: [outcome, self, trace]; trace lists the numerical
\* steps taken, in order
RBFInterpolant_init(y, d, sigma, eps, phi, order, extrapolate) ==
  LET n == Rows(y)
  IN
  IF ~InputShapesFit(y, d, sigma) THEN Failure("ShapeMismatchError", <<>>)
  ELSE
    LET sig == SigmaFull(sigma, n)
        K == AddDiag(RBFMatrix(phi, y.pts, y.pts, eps, NoDiff(y.dim)), sig)
        pwr == powers(order, y.dim)
    IN
    IF OrderTooHigh(pwr, y)
    THEN Failure("InsufficientDataError", <<"kernel", "powers">>)
    ELSE
      LET P == mvmonos(y.pts, pwr, NoDiff(y.dim))
          z == [m \in 1..Len(pwr) |-> Zero]
          r == PartitionedSolve(K, P, [i \in 1..n |-> FromInt(d[i])], z)
      IN
      IF r.singular
      THEN Failure("SingularSystemError", <<"kernel", "powers", "mvmonos", "solve">>)
      ELSE [outcome |-> "ok",
            self |-> [kind |-> "global", y |-> y, phi |-> phi, order |-> order,
                      eps |-> eps, phi_coeff |-> r.a, poly_coeff |-> r.b,
                      pwr |-> pwr, extrapolate |-> extrapolate],
            trace |-> <<"kernel", "powers", "mvmonos", "solve">>]

\* How a call ends: the outcome, the interpolant as the call leaves it, the
\* array returned and the numerical steps taken, in order.
Raised(self, error, trace) ==
  [outcome |-> error, self |-> self, out |-> <<>>, trace |-> trace]
Returned(self, out, trace) ==
  [outcome |-> "ok", self |-> self, out |-> out, trace |-> trace]

\* K.dot(phi_coeff) + P.dot(poly_coeff)
Combine(K, P, phi_coeff, poly_coeff) ==
  Force([i \in 1..Len(K) |-> RAdd(Dot(K[i], phi_coeff), Dot(P[i], poly_coeff))])

\* `if not self.extrapolate: out[~_in_hull(x, self.y)] = np.nan`, h being
\* what _in_hull gives, and the return of the array
Mask(self, out, h) ==
  IF self.extrapolate THEN Returned(self, out, <<"kernel", "mvmonos">>)
  ELSE IF h.error THEN Raised(self, "QhullError", <<"kernel", "mvmonos", "hull">>)
  ELSE Returned(self, Force([i \in 1..Len(out) |-> IF h.mask[i] THEN out[i] ELSE NaN]),
                <<"kernel", "mvmonos", "hull">>)

\* the body of RBFInterpolant.__call__ for chunk_size=None, after the shape check
RBFInterpolant_eval(self, x, diff) ==
  Mask(self,
       Combine(RBFMatrix(self.phi, x.pts, self.y.pts, self.eps, diff),
               mvmonos(x.pts, self.pwr, diff), self.phi_coeff, self.poly_coeff),
       in_hull(x, self.y))

\* x[start:stop] for 0-based start and stop
Slice(x, start, stop) ==
  Arr(x.dim, SubSeq(x.pts, start + 1, IF stop < Rows(x) THEN stop ELSE Rows(x)))

\* out[start:stop] = vals
SliceAssign(out, start, stop, vals) ==
  Force([i \in 1..Len(out) |->
    IF i > start /\ i <= stop THEN vals[i - start] ELSE out[i]])

\* a faulty loop that swallows the error of a chunk and keeps the array as
\* filled so far
StoreChunk_partial(acc, r, start, stop) ==
  IF r.outcome # "ok" THEN Returned(r.self, acc.out, acc.trace \o r.trace)
  ELSE Returned(r.self, SliceAssign(acc.out, start, stop, r.out), acc.trace \o r.trace)
\* `out[start:stop] = self(x[start:stop], ...)`: the loop's state `acc` after
\* the recursive call on one chunk ended as r
StoreChunk(acc, r, start, stop) ==
  IF r.outcome # "ok" THEN Raised(r.self, r.outcome, acc.trace \o r.trace)
  ELSE Returned(r.self, SliceAssign(acc.out, start, stop, r.out), acc.trace \o r.trace)

RECURSIVE RBFInterpolant_chunks(_, _, _, _, _)
\* the loop `for start in range(0, x.shape[0], chunk_size)` from `start` on;
\* acc holds the array filled so far
RBFInterpolant_chunks(acc, x, diff, chunk_size, start) ==
  IF start >= Rows(x) \/ acc.outcome # "ok" THEN acc
  ELSE RBFInterpolant_chunks(
         StoreChunk(acc,
                    RBFInterpolant_eval(acc.self, Slice(x, start, start + chunk_size), diff),
                    start, start + chunk_size),
         x, diff, chunk_size, start + chunk_size)

\* RBFInterpolant.__call__; chunk_size is <<>> for None and <<c>> for c
RBFInterpolant_call(self, x, diff, chunk_size) ==
  IF ~assert_shape2(x, self.y.dim) THEN Raised(self, "ShapeMismatchError", <<>>)
  ELSE IF chunk_size # <<>>
  THEN RBFInterpolant_chunks(Returned(self, [i \in 1..Rows(x) |-> Zero], <<>>),
                             x, diff, chunk_size[1], 0)
  ELSE RBFInterpolant_eval(self, x, diff)

-----------------------------------------------------------------------------
(* NearestRBFInterpolant                                                   *)

\* KDTree(y).  `strict` is whether query refuses a k larger than the number
\* of points (it raises) or pads the missing neighbours with the index one
\* past the last point, as scipy's trees do.
KDTree(y, strict) == [pts |-> y.pts, strict |-> strict]

\* index i is nearer to q than index j: smaller distance, ties by index
Nearer(pts, q, i, j) ==
  \/ Dist2(pts[i], q) < Dist2(pts[j], q)
  \/ Dist2(pts[i], q) = Dist2(pts[j], q) /\ i < j

RECURSIVE KNearest(_, _, _, _)
\* the k nearest indices to q after those in `found`, nearest first
KNearest(pts, q, k, found) ==
  IF Len(found) = k THEN found
  ELSE LET left == (1..Len(pts)) \ {found[i] : i \in 1..Len(found)}
           nxt == CHOOSE i \in left : \A j \in left \ {i} : Nearer(pts, q, i, j)
       IN  KNearest(pts, q, k, Append(found, nxt))

\* tree.query(x, k)[1] for k <= n: one index list per target point
tree_query(tree, x, k) ==
  Force([t \in 1..Rows(x) |-> KNearest(tree.pts, x.pts[t], k, <<>>)])

Take(a, idx) == Force([j \in 1..Len(idx) |-> a[idx[j]]])

\* self.phi(self.y[nbr], self.y[nbr], eps=self.eps): one kernel matrix per
\* target point
NeighbourKernels(self, nbr) ==
  Force([t \in 1..Len(nbr) |->
    RBFMatrix(self.phi, Take(self.y.pts, nbr[t]), Take(self.y.pts, nbr[t]),
              self.eps, NoDiff(self.y.dim))])

\* a faulty smoothing statement that squares the stored sigma of the
\* neighbours in place before adding it
AddSmoothing_inplace(self, K, nbr) ==
  LET used == UNION {{nbr[t][j] : j \in 1..Len(nbr[t])} : t \in 1..Len(nbr)}
  IN  [K |-> Force([t \in 1..Len(K) |-> AddDiag(K[t], Take(self.sigma, nbr[t]))]),
       self |-> [self EXCEPT !.sigma =
                  Force([i \in 1..Len(self.sigma) |->
                    IF i \in used THEN self.sigma[i] * self.sigma[i]
                    ELSE self.sigma[i]])]]
\* K[:, range(k), range(k)] += self.sigma[nbr]**2: the matrices with the
\* smoothing term on their diagonals, and the interpolant as the statement
\* leaves it
AddSmoothing(self, K, nbr) ==
  [K |-> Force([t \in 1..Len(K) |-> AddDiag(K[t], Take(self.sigma, nbr[t]))]),
   self |-> self]

\* [[K, P], [P^T, 0]] of one neighbourhood
LocalLHS(K, P) ==
  LET k == Len(K)
      m == IF k = 0 THEN 0 ELSE Len(Head(P))
  IN  Force([i \in 1..(k + m) |->
        IF i <= k THEN K[i] \o P[i]
        ELSE Force([j \in 1..(k + m) |-> IF j <= k THEN P[j][i - k] ELSE Zero])])

\* [d[nbr]; 0] of one neighbourhood
LocalRHS(self, nb, pwr) ==
  Force([j \in 1..Len(nb) |-> FromInt(self.d[nb[j]])]) \o [m \in 1..Len(pwr) |-> Zero]

\* the value at target point xt from the solved coefficients of its
\* neighbourhood
LocalValue(self, xt, nb, pwr, coeff, diff) ==
  LET k == Len(nb)
      K == Head(RBFMatrix(self.phi, <<xt>>, Take(self.y.pts, nb), self.eps, diff))
      P == Head(mvmonos(<<xt>>, pwr, diff))
  IN  RAdd(Dot(K, SubSeq(coeff, 1, k)), Dot(P, SubSeq(coeff, k + 1, Len(coeff))))

\* a faulty test that recognises no kernel as sparse
IsSparseRBF_never(phi) == FALSE
\* isinstance(phi, SparseRBF)
IsSparseRBF(phi) == phi \in SparseKernels

\* NearestRBFInterpolant.__init__: [outcome, self, trace]
NearestRBFInterpolant_init(y, d, sigma, k, eps, phi, order, strict) ==
  LET n == Rows(y)
  IN
  IF ~InputShapesFit(y, d, sigma) THEN Failure("ShapeMismatchError", <<>>)
  ELSE IF IsSparseRBF(phi) THEN Failure("ConfigurationError", <<>>)
  ELSE [outcome |-> "ok",
        self |-> [kind |-> "local", y |-> y, d |-> d, sigma |-> SigmaFull(sigma, n),
                  k |-> k, eps |-> eps, phi |-> phi, order |-> order,
                  tree |-> KDTree(y, strict)],
        trace |-> <<"tree_build">>]

\* a faulty comparison that also rejects as many monomials as neighbours
OrderTooHighForNeighbours_inclusive(pwr, k) == Len(pwr) >= k
\* pwr.shape[0] > self.k: more monomials than neighbours
OrderTooHighForNeighbours(pwr, k) == Len(pwr) > k

\* the values at the target points from the solutions `sol` of their
\* neighbourhoods' systems, and the return of the array
LocalValues(self, x, diff, pwr, nbr, sol) ==
  LET all == <<"powers", "tree_query", "kernel", "mvmonos", "solve", "kernel", "mvmonos">>
  IN  IF \E t \in 1..Len(sol) : sol[t].singular
      THEN Raised(self, "SingularSystemError", SubSeq(all, 1, 5))
      ELSE Returned(self,
             Force([t \in 1..Len(sol) |->
               LocalValue(self, x.pts[t], nbr[t], pwr, sol[t].s, diff)]),
             all)

\* np.linalg.solve(LHS, rhs) over the neighbourhoods, sm being the kernel
\* matrices and the interpolant after the smoothing statement
LocalSolved(x, diff, pwr, nbr, sm) ==
  LocalValues(sm.self, x, diff, pwr, nbr,
    Force([t \in 1..Len(sm.K) |->
      LinSolve(LocalLHS(sm.K[t],
                        mvmonos(Take(sm.self.y.pts, nbr[t]), pwr, NoDiff(sm.self.y.dim))),
               LocalRHS(sm.self, nbr[t], pwr))]))

\* the call from the kernel matrices of the neighbourhoods nbr on
LocalSmoothed(self, x, diff, pwr, nbr) ==
  LocalSolved(x, diff, pwr, nbr, AddSmoothing(self, NeighbourKernels(self, nbr), nbr))

\* the body of NearestRBFInterpolant.__call__ for chunk_size=None, after the
\* shape check
NearestRBFInterpolant_eval(self, x, diff) ==
  LET pwr == powers(self.order, self.y.dim)
      n == Rows(self.y)
  IN
  IF OrderTooHighForNeighbours(pwr, self.k)
  THEN Raised(self, "InsufficientDataError", <<"powers">>)
  ELSE IF self.k > n /\ self.tree.strict
  THEN Raised(self, "TreeQueryError", <<"powers", "tree_query">>)
  ELSE IF self.k > n /\ Rows(x) > 0
  THEN Raised(self, "IndexError", <<"powers", "tree_query">>)
  ELSE LocalSmoothed(self, x, diff, pwr,
                     IF self.k > n THEN <<>> ELSE tree_query(self.tree, x, self.k))

RECURSIVE NearestRBFInterpolant_chunks(_, _, _, _, _)
\* the loop `for start in range(0, x.shape[0], chunk_size)` from `start` on;
\* acc holds the array filled so far
NearestRBFInterpolant_chunks(acc, x, diff, chunk_size, start) ==
  IF start >= Rows(x) \/ acc.outcome # "ok" THEN acc
  ELSE NearestRBFInterpolant_chunks(
         StoreChunk(acc,
                    NearestRBFInterpolant_eval(acc.self,
                                               Slice(x, start, start + chunk_size), diff),
                    start, start + chunk_size),
         x, diff, chunk_size, start + chunk_size)

\* NearestRBFInterpolant.__call__; chunk_size is <<>> for None and <<c>> for c
NearestRBFInterpolant_call(self, x, diff, chunk_size) ==
  IF ~assert_shape2(x, self.y.dim) THEN Raised(self, "ShapeMismatchError", <<>>)
  ELSE IF chunk_size # <<>>
  THEN NearestRBFInterpolant_chunks(Returned(self, [i \in 1..Rows(x) |-> Zero], <<>>),
                                    x, diff, chunk_size[1], 0)
  ELSE NearestRBFInterpolant_eval(self, x, diff)

-----------------------------------------------------------------------------
(* The explored inputs.                                                    *)

\* Observations: points with their observed values.  One and two
\* dimensional; sorted and not; a repeated point; fewer points than D + 1;
\* points on one line of the plane.
DataSets ==
  { [y |-> Arr(1, << <<2>>, <<0>>, <<1>> >>), d |-> <<1, 0, 2>>],
    [y |-> Arr(1, << <<1>>, <<1>> >>), d |-> <<0, 1>>],
    [y |-> Arr(1, << <<1>> >>), d |-> <<2>>],
    [y |-> Arr(2, << <<3, 4>>, <<0, 0>>, <<3, 0>> >>), d |-> <<0, 1, 2>>],
    [y |-> Arr(2, << <<0, 0>>, <<6, 0>>, <<3, 0>> >>), d |-> <<1, 0, 1>>],
    [y |-> Arr(2, << <<3, 0>>, <<3, 4>> >>), d |-> <<1, 2>>] }

\* the observed values of a data set, one value too many, one too few
DChoices(ds) == {ds.d, Append(ds.d, 0), SubSeq(ds.d, 1, Len(ds.d) - 1)}

\* sigma: the scalar 0, an array of the right length, an array too long
SigmaChoices(n) ==
  { [scalar |-> TRUE, v |-> <<0>>],
    [scalar |-> FALSE, v |-> Force([i \in 1..n |-> 2 * (i % 2)])],
    [scalar |-> FALSE, v |-> Force([i \in 1..(n + 1) |-> 2 * (i % 2)])] }

Orders == {-1, 0, 1}
Kernels == DenseKernels \cup SparseKernels
\* shape parameters; in the plane the one that keeps the entries of the
\* kernel matrices small
EpsValues(dim) == IF dim = 1 THEN {1, 2} ELSE {1}

\* Target points are taken in order from one of two lists: points that are
\* observation points, points inside and points outside the hull.
TargetLists(dim) ==
  IF dim = 1 THEN { << <<1>>, <<3>>, <<0>> >>, << <<3>>, <<1>>, <<2>> >> }
  ELSE { << <<3, 0>>, <<3, -4>>, <<0, 0>> >>, << <<3, -4>>, <<3, 4>>, <<3, 0>> >> }
Dims == {1, 2}

\* the arrays of at most MaxP target points
Targets(dim) ==
  {Arr(dim, Force([i \in 1..n |-> l[((i - 1) % Len(l)) + 1]])) :
     l \in TargetLists(dim), n \in 0..MaxP}

\* derivative orders: the function value, the first derivative in x_1
Diffs(dim) == {NoDiff(dim), [i \in 1..dim |-> IF i = 1 THEN 1 ELSE 0]}

ChunkSizes == {<<>>} \cup {<<c>> : c \in 1..MaxChunk}

-----------------------------------------------------------------------------
(* The program: one interpolant is constructed and then evaluated.         *)

VARIABLES
  self,     \* the interpolant, None before and after a failed construction
  op,       \* the operation that ran last
  cargs,    \* the arguments of the constructor call
  args,     \* the arguments of the last evaluation, the interpolant it was
            \* made on (as it then was) among them
  outcome,  \* how the last operation ended: "ok" or the error raised
  out,      \* the array the last evaluation returned
  trace     \* the numerical steps the last operation took, in order

vars == <<self, op, cargs, args, outcome, out, trace>>

NoArgs == [kind |-> "none"]

Init ==
  /\ self = None
  /\ op = "none"
  /\ cargs = NoArgs
  /\ args = NoArgs
  /\ outcome = "none"
  /\ out = <<>>
  /\ trace = <<>>

\* RBFInterpolant(y, d, sigma, eps, phi, order, extrapolate)
ConstructGlobal ==
  /\ op = "none"
  /\ \E ds \in DataSets, phi \in Kernels, order \in Orders, extrapolate \in BOOLEAN :
       \E d \in DChoices(ds), sigma \in SigmaChoices(Rows(ds.y)),
          eps \in EpsValues(ds.y.dim) :
         LET r == RBFInterpolant_init(ds.y, d, sigma, eps, phi, order, extrapolate)
         IN  /\ self' = r.self
             /\ op' = "init_global"
             /\ cargs' = [kind |-> "global", y |-> ds.y, d |-> d, sigma |-> sigma,
                          eps |-> eps, phi |-> phi, order |-> order,
                          extrapolate |-> extrapolate]
             /\ outcome' = r.outcome
             /\ trace' = r.trace
             /\ UNCHANGED <<args, out>>

\* NearestRBFInterpolant(y, d, sigma, k, eps, phi, order)
ConstructLocal ==
  /\ op = "none"
  /\ \E ds \in DataSets, phi \in Kernels, order \in Orders, k \in 1..MaxK :
       \E d \in DChoices(ds), sigma \in SigmaChoices(Rows(ds.y)),
          eps \in EpsValues(ds.y.dim),
          strict \in (IF k > Rows(ds.y) THEN BOOLEAN ELSE {TRUE}) :
         LET r == NearestRBFInterpolant_init(ds.y, d, sigma, k, eps, phi, order, strict)
         IN  /\ self' = r.self
             /\ op' = "init_local"
             /\ cargs' = [kind |-> "local", y |-> ds.y, d |-> d, sigma |-> sigma,
                          k |-> k, eps |-> eps, phi |-> phi, order |-> order]
             /\ outcome' = r.outcome
             /\ trace' = r.trace
             /\ UNCHANGED <<args, out>>

\* the caller takes what the last operation returned or raised
Return ==
  /\ self # None
  /\ op # "idle"
  /\ op' = "idle"
  /\ args' = NoArgs
  /\ outcome' = "none"
  /\ out' = <<>>
  /\ trace' = <<>>
  /\ UNCHANGED <<self, cargs>>

\* self(x, diff, chunk_size) on an RBFInterpolant
CallGlobal ==
  /\ op = "idle"
  /\ self.kind = "global"
  /\ \E dim \in Dims, chunk_size \in ChunkSizes :
       \E x \in Targets(dim), diff \in Diffs(self.y.dim) :
         LET r == RBFInterpolant_call(self, x, diff, chunk_size)
         IN  /\ op' = "call_global"
             /\ args' = [kind |-> "call", self |-> self, x |-> x, diff |-> diff,
                         chunk_size |-> chunk_size]
             /\ outcome' = r.outcome
             /\ out' = r.out
             /\ trace' = r.trace
             /\ self' = r.self
             /\ UNCHANGED cargs

\* self(x, diff, chunk_size) on a NearestRBFInterpolant
CallLocal ==
  /\ op = "idle"
  /\ self.kind = "local"
  /\ \E dim \in Dims, chunk_size \in ChunkSizes :
       \E x \in Targets(dim), diff \in Diffs(self.y.dim) :
         LET r == NearestRBFInterpolant_call(self, x, diff, chunk_size)
         IN  /\ op' = "call_local"
             /\ args' = [kind |-> "call", self |-> self, x |-> x, diff |-> diff,
                         chunk_size |-> chunk_size]
             /\ outcome' = r.outcome
             /\ out' = r.out
             /\ trace' = r.trace
             /\ self' = r.self
             /\ UNCHANGED cargs

Next == ConstructGlobal \/ ConstructLocal \/ Return \/ CallGlobal \/ CallLocal

Spec == Init /\ [][Next]_vars

-----------------------------------------------------------------------------
(* Properties.  The constructor arguments stay in cargs, so a property of  *)
(* a call can speak of the observations the interpolant was built from.    *)

Range(s) == {s[i] : i \in 1..Len(s)}

Constructed == op \in {"init_global", "init_local"}
Called == op \in {"call_global", "call_local"}

\* d and an array-valued sigma have one entry per observation
ShapesFit ==
  /\ Len(cargs.d) = Rows(cargs.y)
  /\ cargs.sigma.scalar \/ Len(cargs.sigma.v) = Rows(cargs.y)

\* the targets have the dimension of the observations
TargetsFit == args.x.dim = cargs.y.dim

NumObs == Rows(cargs.y)
Dim == cargs.y.dim
\* M(D, order)
NumMonomials == MonomialCount(cargs.order, cargs.y.dim)

\* the single-pass evaluation (chunk_size=None) of the last call's targets
SinglePass ==
  IF self.kind = "global"
  THEN RBFInterpolant_call(self, args.x, args.diff, <<>>)
  ELSE NearestRBFInterpolant_call(self, args.x, args.diff, <<>>)

\* C1: every chunked evaluation ends as the single-pass evaluation of the same
\* targets does: the same outcome (array or error) and, element for element,
\* the same array, for every chunk size and every number of targets.
ChunkInvariance ==
  Called /\ args.chunk_size # <<>> =>
    LET single == SinglePass
    IN  outcome = single.outcome /\ out = single.out

\* C1: a chunked evaluation of no targets returns an (empty) array although
\* the single-pass evaluation of the same targets raises an error.
EmptyChunkedCallDiffers ==
  /\ Called
  /\ args.chunk_size # <<>>
  /\ Rows(args.x) = 0
  /\ outcome = "ok"
  /\ SinglePass.outcome # "ok"

\* C2: a constructor given d or sigma of the wrong length, and a call given
\* targets of the wrong dimension, ends with the shape error, exactly then,
\* having taken no numerical step; the constructor leaves no interpolant and
\* the call returns no array.
ShapeValidationFirst ==
  /\ Constructed =>
       /\ outcome = "ShapeMismatchError" <=> ~ShapesFit
       /\ outcome = "ShapeMismatchError" => trace = <<>> /\ self = None
  /\ Called =>
       /\ outcome = "ShapeMismatchError" <=> ~TargetsFit
       /\ outcome = "ShapeMismatchError" => trace = <<>> /\ out = <<>>

\* C2: a local constructor was given a sigma array of the wrong length (and d
\* of the right one) and ended with the shape error.
ShapeErrorRaised ==
  /\ op = "init_local"
  /\ Len(cargs.d) = NumObs
  /\ ~cargs.sigma.scalar /\ Len(cargs.sigma.v) # NumObs
  /\ outcome = "ShapeMismatchError"

\* C3: the global constructor, given arrays of fitting shapes, fails with
\* InsufficientDataError exactly when M > N; then the solver has not run and
\* no interpolant exists.
GlobalOrderCheck ==
  op = "init_global" /\ ShapesFit =>
    /\ outcome = "InsufficientDataError" <=> NumMonomials > NumObs
    /\ NumMonomials > NumObs => "solve" \notin Range(trace) /\ self = None

\* C3: a global construction with M > N has failed with InsufficientDataError.
GlobalOrderRejected ==
  /\ op = "init_global"
  /\ ShapesFit
  /\ NumMonomials > NumObs
  /\ outcome = "InsufficientDataError"

\* C4 as stated: the local constructor, given fitting shapes and a dense
\* kernel, fails with InsufficientDataError when M > k, and no local
\* interpolant with M > k exists.
LocalOrderCheckedAtConstruction ==
  /\ op = "init_local" /\ ShapesFit /\ cargs.phi \in DenseKernels
       /\ NumMonomials > cargs.k
       => outcome = "InsufficientDataError"
  /\ self # None /\ self.kind = "local" => NumMonomials <= self.k

\* C4 amended: the local constructor does not compare M with k: given fitting
\* shapes and a dense kernel it succeeds also when M > k.  The comparison is
\* made when a batch is evaluated: a call that evaluates a batch (a
\* single-pass call, or a chunked call of at least one target) fails with
\* InsufficientDataError exactly when M > k, and then right after the
\* monomial powers were formed.
LocalOrderCheckedAtEvaluation ==
  /\ op = "init_local" /\ ShapesFit /\ cargs.phi \in DenseKernels
       => outcome = "ok" /\ self.kind = "local" /\ self.order = cargs.order
          /\ self.k = cargs.k
  /\ op = "call_local" /\ TargetsFit
       /\ (args.chunk_size = <<>> \/ Rows(args.x) > 0)
       => /\ outcome = "InsufficientDataError" <=> NumMonomials > self.k
          /\ NumMonomials > self.k => trace = <<"powers">> /\ out = <<>>

\* C4: a call on a local interpolant with M > k has failed with
\* InsufficientDataError.
LocalOrderRejectedAtEvaluation ==
  /\ op = "call_local"
  /\ NumMonomials > self.k
  /\ outcome = "InsufficientDataError"

\* C5: every call with fitting targets on a local interpolant with M > k fails
\* with InsufficientDataError before any neighbour query or solve, whatever
\* the batch (also an empty one) and whatever the chunk size; it returns no
\* array.
LocalCallRejectsOrder ==
  op = "call_local" /\ TargetsFit /\ NumMonomials > self.k =>
    /\ outcome = "InsufficientDataError"
    /\ "tree_query" \notin Range(trace)
    /\ "solve" \notin Range(trace)

\* C5: a chunked call of no targets on a local interpolant with M > k has
\* returned an array.
EmptyChunkedCallSkipsOrderCheck ==
  /\ op = "call_local"
  /\ NumMonomials > self.k
  /\ Rows(args.x) = 0
  /\ args.chunk_size # <<>>
  /\ outcome = "ok"

\* C6: the local constructor, given fitting shapes, fails with
\* ConfigurationError when the kernel is of the sparse family, without
\* building the spatial index and leaving no interpolant; with a dense kernel
\* it succeeds, having built the index over the observations exactly once.
SparseKernelRejected ==
  op = "init_local" /\ ShapesFit =>
    /\ cargs.phi \in SparseKernels =>
         /\ outcome = "ConfigurationError"
         /\ "tree_build" \notin Range(trace)
         /\ self = None
    /\ cargs.phi \in DenseKernels =>
         /\ outcome = "ok"
         /\ Cardinality({i \in 1..Len(trace) : trace[i] = "tree_build"}) = 1
         /\ self.tree.pts = cargs.y.pts

\* C6: a local construction with a sparse kernel has failed with
\* ConfigurationError.
SparseKernelSeen ==
  /\ op = "init_local"
  /\ ShapesFit
  /\ cargs.phi \in SparseKernels
  /\ outcome = "ConfigurationError"

Between(a, v, b) == (a <= v /\ v <= b) \/ (b <= v /\ v <= a)

\* p is on the segment from a to b (which may be a single point)
OnSegment(p, a, b) ==
  /\ Cross(a, b, p) = 0
  /\ Between(a[1], p[1], b[1])
  /\ Between(a[2], p[2], b[2])

\* p is in the closed convex hull of the points pts of the line or the plane
InConvexHull(p, pts) ==
  IF Len(p) = 1
  THEN \E i, j \in 1..Len(pts) : pts[i][1] <= p[1] /\ p[1] <= pts[j][1]
  ELSE \/ \E i, j \in 1..Len(pts) : OnSegment(p, pts[i], pts[j])
       \/ \E i, j, k \in 1..Len(pts) :
            /\ Cross(pts[i], pts[j], pts[k]) # 0
            /\ InTriangle(p, pts[i], pts[j], pts[k])

\* K.dot(phi_coeff) + P.dot(poly_coeff) of the global interpolant at point p,
\* for the derivative of the last call
ValueAt(p) ==
  RAdd(Dot(Head(RBFMatrix(self.phi, <<p>>, self.y.pts, self.eps, args.diff)),
           self.phi_coeff),
       Dot(Head(mvmonos(<<p>>, self.pwr, args.diff)), self.poly_coeff))

\* C7 as stated: every entry of an array returned by the global interpolant
\* is not-a-number exactly when extrapolation is off and its target is
\* outside the convex hull of the observations, and is K.a + P.b otherwise.
MaskedOutsideHull ==
  op = "call_global" /\ outcome = "ok" =>
    /\ Len(out) = Rows(args.x)
    /\ \A i \in 1..Len(out) :
         out[i] = IF ~self.extrapolate /\ ~InConvexHull(args.x.pts[i], self.y.pts)
                  THEN NaN ELSE ValueAt(args.x.pts[i])

\* C7 amended: every entry of an array returned by the global interpolant is
\* not-a-number exactly when extrapolation is off and either there are fewer
\* than D + 1 observations (then every target counts as outside, also one
\* that is an observation point) or its target is outside the convex hull of
\* the observations; it is K.a + P.b otherwise, so with extrapolation on no
\* entry is overwritten.  A call with fitting targets fails only with
\* extrapolation off, D >= 2 and at least D + 1 observations that span no
\* simplex: the triangulation of the hull test raises.
MaskedOutsideHullOrTooFew ==
  /\ op = "call_global" /\ outcome = "ok" =>
       /\ Len(out) = Rows(args.x)
       /\ \A i \in 1..Len(out) :
            out[i] = IF /\ ~self.extrapolate
                        /\ \/ NumObs <= Dim
                           \/ ~InConvexHull(args.x.pts[i], self.y.pts)
                     THEN NaN ELSE ValueAt(args.x.pts[i])
  /\ op = "call_global" /\ TargetsFit /\ outcome # "ok" =>
       /\ outcome = "QhullError"
       /\ ~self.extrapolate /\ Dim >= 2 /\ NumObs > Dim
       /\ \A i, j, k \in 1..NumObs :
            Cross(self.y.pts[i], self.y.pts[j], self.y.pts[k]) = 0

\* C7: with extrapolation off and fewer than D + 1 observations, the entry
\* of a target that is an observation point is not-a-number.
ObservationPointMasked ==
  /\ op = "call_global" /\ outcome = "ok"
  /\ ~self.extrapolate
  /\ NumObs <= Dim
  /\ \E i \in 1..Len(out) :
       /\ args.x.pts[i] \in Range(self.y.pts)
       /\ out[i] = NaN

\* C8: every call with fitting targets on a local interpolant with M <= k
\* returns a value for every target, never not-a-number and never an error,
\* whatever k and N are.
LocalCallAlwaysReturns ==
  op = "call_local" /\ TargetsFit /\ NumMonomials <= self.k =>
    /\ outcome = "ok"
    /\ Len(out) = Rows(args.x)
    /\ \A i \in 1..Len(out) : ~IsNaN(out[i])

\* C8: a call on a local interpolant with M <= k and N < k has failed in or
\* right after the neighbour query.
TooFewObservationsForNeighbours ==
  /\ op = "call_local"
  /\ NumMonomials <= self.k
  /\ self.k > NumObs
  /\ outcome \in {"TreeQueryError", "IndexError"}

\* sigma, one entry per observation, as the constructor was given it
SigmaGiven == SigmaFull(cargs.sigma, NumObs)

ZeroDiff == \A i \in 1..Len(args.diff) : args.diff[i] = 0

\* d_i - sigma_i^2 * a_i for observation i of the global interpolant
SmoothedObservation(i) ==
  RSub(FromInt(cargs.d[i]),
       RMul(FromInt(SigmaGiven[i] * SigmaGiven[i]), self.phi_coeff[i]))

\* C9 as stated: the global interpolant built with sigma = 0, evaluated with
\* the zero derivative, returns the observed value d_i for every target
\* that is observation point i.
ExactAtObservations ==
  /\ op = "call_global" /\ outcome = "ok" /\ ZeroDiff
  /\ \A i \in 1..NumObs : SigmaGiven[i] = 0
  => \A j \in 1..Len(out), i \in 1..NumObs :
       args.x.pts[j] = self.y.pts[i] => out[j] = FromInt(cargs.d[i])

\* C9 amended: the global interpolant, evaluated with the zero derivative,
\* returns d_i - sigma_i^2 * a_i (so d_i itself when sigma_i = 0) for every
\* target that is observation point i, unless extrapolation is off and there
\* are fewer than D + 1 observations: then the hull test masks the entry
\* with not-a-number.
ExactAtUnmaskedObservations ==
  op = "call_global" /\ outcome = "ok" /\ ZeroDiff =>
    \A j \in 1..Len(out), i \in 1..NumObs :
      args.x.pts[j] = self.y.pts[i] =>
        out[j] = IF ~self.extrapolate /\ NumObs <= Dim THEN NaN
                 ELSE SmoothedObservation(i)

\* C9: the value returned at an observation point differs from the observed
\* value by a non-zero smoothing term.
SmoothedValueReturned ==
  /\ op = "call_global" /\ outcome = "ok" /\ ZeroDiff
  /\ \E j \in 1..Len(out), i \in 1..NumObs :
       /\ args.x.pts[j] = self.y.pts[i]
       /\ SigmaGiven[i] # 0
       /\ out[j] = SmoothedObservation(i)
       /\ out[j] # FromInt(cargs.d[i])

\* the last call made again on the interpolant as that call left it
CalledAgain ==
  IF self.kind = "global"
  THEN RBFInterpolant_call(self, args.x, args.diff, args.chunk_size)
  ELSE NearestRBFInterpolant_call(self, args.x, args.diff, args.chunk_size)

\* C10: a call, whether it returns or raises, leaves every attribute of the
\* interpolant as it was (for the local interpolant also sigma and the
\* observations, whose smoothing term the call adds to a kernel diagonal),
\* and the same call made again ends the same way with the same array.
EvaluationReadOnly ==
  Called =>
    /\ self = args.self
    /\ LET again == CalledAgain
       IN  again.outcome = outcome /\ again.out = out /\ again.self = self

\* C10: a local interpolant with a non-zero sigma has returned values, so
\* the smoothing term was added to the kernel diagonals.
SmoothedLocalCallReturned ==
  /\ op = "call_local" /\ outcome = "ok"
  /\ Len(out) > 0
  /\ \E i \in 1..Len(self.sigma) : self.sigma[i] # 0

\* the attributes __init__ assigns to an interpolant of the given kind
Attributes(kind) ==
  IF kind = "global"
  THEN {"kind", "y", "phi", "order", "eps", "phi_coeff", "poly_coeff", "pwr",
        "extrapolate"}
  ELSE {"kind", "y", "d", "sigma", "k", "eps", "phi", "order", "tree"}

\* the single-pass evaluation of target i of the last call alone
PointCall(i) ==
  IF self.kind = "global"
  THEN RBFInterpolant_call(self, Arr(args.x.dim, <<args.x.pts[i]>>), args.diff, <<>>)
  ELSE NearestRBFInterpolant_call(self, Arr(args.x.dim, <<args.x.pts[i]>>),
                                  args.diff, <<>>)

\* C11: a constructor that fails leaves no interpolant and none of its
\* attributes, one that succeeds leaves all of them; a call that fails, in
\* whichever chunk, returns no array, and a call that returns gives one
\* entry per target, each the value the evaluation of that target gives.
AllOrNothing ==
  /\ Constructed /\ outcome # "ok" => self = None
  /\ Constructed /\ outcome = "ok" =>
       /\ self.kind = cargs.kind
       /\ DOMAIN self = Attributes(cargs.kind)
  /\ Called /\ outcome # "ok" => out = <<>>
  /\ Called /\ outcome = "ok" =>
       /\ Len(out) = Rows(args.x)
       /\ \A i \in 1..Len(out) :
            LET one == PointCall(i)
            IN  one.outcome = "ok" /\ one.out = <<out[i]>>

\* C11: a chunked call failed in a later chunk after its first chunk had
\* been evaluated and stored, and returned no array.
LaterChunkFailed ==
  /\ op = "call_local" /\ TargetsFit /\ args.chunk_size # <<>>
  /\ outcome # "ok" /\ out = <<>>
  /\ Rows(args.x) > args.chunk_size[1]
  /\ NearestRBFInterpolant_eval(self, Slice(args.x, 0, args.chunk_size[1]),
                                args.diff).outcome = "ok"

\* C12: in a call of a global interpolant with extrapolation off, _in_hull
\* reports every target as outside when there are fewer than D + 1
\* observations, and the call returns not-a-number for every target; with
\* at least D + 1 observations the shortcut is not taken: _in_hull either
\* fails in the triangulation or reports a target as inside exactly when it
\* is in the convex hull, and a returned entry is not-a-number exactly for
\* the targets outside.
DegenerateHull ==
  op = "call_global" /\ TargetsFit /\ ~self.extrapolate =>
    LET h == in_hull(args.x, self.y)
        P == Rows(args.x)
    IN  /\ NumObs < Dim + 1 =>
             /\ ~h.error
             /\ \A i \in 1..P : ~h.mask[i]
             /\ outcome = "ok"
             /\ Len(out) = P
             /\ \A i \in 1..P : IsNaN(out[i])
        /\ NumObs >= Dim + 1 =>
             /\ \/ h.error
                \/ \A i \in 1..P :
                     h.mask[i] <=> InConvexHull(args.x.pts[i], self.y.pts)
             /\ outcome = "ok" =>
                  /\ Len(out) = P
                  /\ \A i \in 1..P :
                       IsNaN(out[i]) <=> ~InConvexHull(args.x.pts[i], self.y.pts)

\* C12: with two observations in the plane and extrapolation off, the entry
\* of a target that is one of the two observation points is not-a-number.
PlaneObservationMasked ==
  /\ op = "call_global" /\ outcome = "ok"
  /\ ~self.extrapolate
  /\ Dim = 2 /\ NumObs = 2
  /\ \E i \in 1..Len(out) :
       /\ args.x.pts[i] \in Range(self.y.pts)
       /\ IsNaN(out[i])

====
